---- MODULE Spec2Model ----
(***************************************************************************)
(* Settings persistence of the GCVideo DVI firmware (Firmware/settings.c): *)
(* the live settings, the 64-byte stored record (storedsettings_t), the    *)
(* settings sector of the SPI flash with its 256 record slots, and the     *)
(* operations settings_load and settings_save.                             *)
(*                                                                         *)
(* A slot is modelled by the sizeof(storedsettings_t) = 64 bytes that      *)
(* settings_load reads and settings_save programs; bytes 64..255 of a slot *)
(* are never read or written by the code.  The sector is held as the map   *)
(* from the slots that contain a programmed byte to their bytes; every     *)
(* other slot reads as 64 bytes of 0xFF.                                   *)
(***************************************************************************)
EXTENDS Integers, Sequences, FiniteSets, TLC

(***************************************************************************)
(* Program constants                                                       *)
(***************************************************************************)
SETTINGS_VERSION == 5
SETTINGS_SIZE_V4 == 60
SETTINGS_SIZE_V5 == 63
SET_FLAG_RESBOX == 1
SET_FLAG_MUTE == 2
VIDMODE_COUNT == 6
\* ir_codes ends where the version-4 record ends: 36 + 4 * NUM_IRCODES = 60
NUM_IRCODES == 6
\* number of record slots in the settings sector (scan bound, cursor reset)
NumSlots == 256
\* sizeof(storedsettings_t): 63 bytes of members, padded to 4-byte alignment
RecSize == 64
\* value of an erased flash byte
FillByte == 255

\* member offsets of storedsettings_t (natural alignment)
OffChecksum == 0
OffVersion == 1
OffFlags == 2
OffVolume == 3
OffVideo == 4
OffOsdbg == 28
OffDelay == 32
OffIrCodes == 36
OffBrightness == 60
OffContrast == 61
OffSaturation == 62

Slots == 0 .. (NumSlots - 1)
RecIdx == 0 .. (RecSize - 1)
Modes == 0 .. (VIDMODE_COUNT - 1)
IrIdx == 0 .. (NUM_IRCODES - 1)

\* video_mode_t, in the order of mode_names and video_out_lines: "even are
\* 60Hz, odd are 50Hz"
VIDMODE_240p == 0
VIDMODE_288p == 1
VIDMODE_480i == 2
VIDMODE_576i == 3
VIDMODE_480p == 4
VIDMODE_576p == 5

\* bits of the VIDEOIF->flags register tested by detect_inputmode: three
\* distinct single-bit masks
VIDEOIF_FLAG_PROGRESSIVE == 1
VIDEOIF_FLAG_PAL == 2
VIDEOIF_FLAG_31KHZ == 4
\* number of low bits of VIDEOIF->flags that take every value
FlagBits == 7
FlagValues == 0 .. (2 ^ FlagBits - 1)

(***************************************************************************)
(* Bounds of the model                                                     *)
(***************************************************************************)
\* settings_save calls explored in Spec
MaxSaves == 2
\* settings_save calls explored in SpecErased
MaxSavesErased == 3
\* full passes over the sector explored in SpecWear
MaxCycles == 2

(***************************************************************************)
(* Byte-level helpers                                                      *)
(***************************************************************************)
\* A uint32_t is held as the tuple of its four bytes in memory order, so
\* that no value exceeds the range of the model checker's integers; the
\* code only copies these words between the globals and the record.
ToWord(n) ==
  <<n % 256, (n \div 256) % 256, (n \div 65536) % 256, (n \div 16777216) % 256>>

AllOnes == <<255, 255, 255, 255>>

\* byte k (0 = first in memory) of a 32-bit word
WordByte(w, k) == w[k + 1]

\* the 32-bit member stored at offset off of record rec
WordAt(rec, off) == <<rec[off], rec[off + 1], rec[off + 2], rec[off + 3]>>

\* two words differing in their second and first byte by m
WordPlus(w, m) == <<(w[1] + m) % 256, (w[2] + m) % 256, w[3], w[4]>>

\* int8_t <-> its byte
ToByte(v) == (v + 256) % 256
ToInt8(b) == IF b >= 128 THEN b - 256 ELSE b

RECURSIVE BitAnd(_, _, _)
BitAnd(a, b, n) ==
  IF n = 0 THEN 0
  ELSE (a % 2) * (b % 2) + 2 * BitAnd(a \div 2, b \div 2, n - 1)

RECURSIVE BitXor(_, _, _)
BitXor(a, b, n) ==
  IF n = 0 THEN 0
  ELSE ((a + b) % 2) + 2 * BitXor(a \div 2, b \div 2, n - 1)

\* a | b on n-bit values
BitOr(a, b, n) == a + b - BitAnd(a, b, n)

\* a classification that switches on the whole flags register, without
\* masking out the bits it does not test
detect_inputmodeNoMask(flags) ==
  LET PROG == VIDEOIF_FLAG_PROGRESSIVE
      PAL == VIDEOIF_FLAG_PAL
      K31 == VIDEOIF_FLAG_31KHZ
      cur_flags == flags
  IN  CASE cur_flags = BitOr(PAL, K31, FlagBits) -> VIDMODE_576p
        [] cur_flags = BitOr(BitOr(PAL, K31, FlagBits), PROG, FlagBits)
             -> VIDMODE_576p
        [] cur_flags = BitOr(PAL, PROG, FlagBits) -> VIDMODE_288p
        [] cur_flags = PAL -> VIDMODE_576i
        [] cur_flags = K31 -> VIDMODE_480p
        [] cur_flags = BitOr(K31, PROG, FlagBits) -> VIDMODE_480p
        [] cur_flags = PROG -> VIDMODE_240p
        [] cur_flags = 0 -> VIDMODE_480i
        [] OTHER -> VIDMODE_480i

\* detect_inputmode: the switch over the PROGRESSIVE, PAL and 31KHZ bits
\* of VIDEOIF->flags
detect_inputmode(flags) ==
  LET PROG == VIDEOIF_FLAG_PROGRESSIVE
      PAL == VIDEOIF_FLAG_PAL
      K31 == VIDEOIF_FLAG_31KHZ
      cur_flags == BitAnd(flags,
                          BitOr(BitOr(PROG, PAL, FlagBits), K31, FlagBits),
                          FlagBits)
  IN  CASE cur_flags = BitOr(PAL, K31, FlagBits) -> VIDMODE_576p
        [] cur_flags = BitOr(BitOr(PAL, K31, FlagBits), PROG, FlagBits)
             -> VIDMODE_576p
        [] cur_flags = BitOr(PAL, PROG, FlagBits) -> VIDMODE_288p
        [] cur_flags = PAL -> VIDMODE_576i
        [] cur_flags = K31 -> VIDMODE_480p
        [] cur_flags = BitOr(K31, PROG, FlagBits) -> VIDMODE_480p
        [] cur_flags = PROG -> VIDMODE_240p
        [] cur_flags = 0 -> VIDMODE_480i
        [] OTHER -> VIDMODE_480i

\* uint8_t sum of bytes j .. size-1, the result of the loops
\* "for (j = 1; j < size; j++) sum += byteset[j]"; addition modulo 256 is
\* associative, so the range is summed by halves
RECURSIVE SumBytes(_, _, _)
SumBytes(rec, j, size) ==
  IF j >= size THEN 0
  ELSE IF j + 1 = size THEN rec[j]
  ELSE LET mid == (j + size) \div 2
       IN  (SumBytes(rec, j, mid) + SumBytes(rec, mid, size)) % 256

ErasedRec == [b \in RecIdx |-> FillByte]
ErasedSector == [i \in {} |-> ErasedRec]

(***************************************************************************)
(* Flash primitives (spiflash.h)                                           *)
(***************************************************************************)
spiflash_read_block(f, i) == IF i \in DOMAIN f THEN f[i] ELSE ErasedRec

spiflash_erase_sector(f) == ErasedSector

\* slot i of sector f set to the bytes new
WithSlot(f, i, new) ==
  LET dom == IF new = ErasedRec THEN DOMAIN f \ {i} ELSE DOMAIN f \cup {i}
  IN  [j \in dom |-> IF j = i THEN new ELSE f[j]]

\* programming can only clear bits: each byte becomes old AND new (which
\* is new itself on an erased slot)
spiflash_write_page(f, i, rec) ==
  LET old == spiflash_read_block(f, i)
  IN  WithSlot(f, i, IF old = ErasedRec THEN rec
                     ELSE [b \in RecIdx |-> BitAnd(old[b], rec[b], 8)])

(***************************************************************************)
(* Record codec                                                            *)
(***************************************************************************)
\* settings_save: "create settings record", byte b <= 62 of the struct
\* members as assigned from the settings s (the checksum member still 0)
MemberByte(s, b) ==
  IF b = OffChecksum THEN 0
  ELSE IF b = OffVersion THEN SETTINGS_VERSION
  ELSE IF b = OffFlags THEN
    (IF s.resbox_enabled THEN SET_FLAG_RESBOX ELSE 0)
    + (IF s.audio_mute THEN SET_FLAG_MUTE ELSE 0)
  ELSE IF b = OffVolume THEN s.audio_volume
  ELSE IF b < OffOsdbg THEN
    WordByte(s.video_settings[(b - OffVideo) \div 4], (b - OffVideo) % 4)
  ELSE IF b < OffDelay THEN WordByte(s.osdbg_settings, b - OffOsdbg)
  ELSE IF b < OffIrCodes THEN WordByte(s.mode_switch_delay, b - OffDelay)
  ELSE IF b < OffBrightness THEN
    WordByte(s.ir_codes[(b - OffIrCodes) \div 4], (b - OffIrCodes) % 4)
  ELSE IF b = OffBrightness THEN ToByte(s.picture_brightness)
  ELSE IF b = OffContrast THEN ToByte(s.picture_contrast)
  ELSE ToByte(s.picture_saturation)

\* a build in which the struct is not cleared: the padding byte keeps
\* whatever the stack held
RecordBodyNoMemset(s) ==
  [b \in RecIdx |-> IF b <= OffSaturation THEN MemberByte(s, b) ELSE 170]

\* settings_save: the 64 bytes of the struct after memset(&set, 0, ...) and
\* the member assignments; the padding byte 63 stays 0
RecordBody(s) ==
  [b \in RecIdx |-> IF b <= OffSaturation THEN MemberByte(s, b) ELSE 0]

\* settings_save: "calculate checksum" over bytes 1 .. sizeof - 1
SaveChecksum(body) == SumBytes(body, 1, RecSize)

BuildRecord(s) ==
  LET body == RecordBody(s)
  IN  [body EXCEPT ![OffChecksum] = SaveChecksum(body)]

\* settings_load: switch (set.version)
RecordSize(version) ==
  IF version = 4 THEN SETTINGS_SIZE_V4
  ELSE IF version = 5 THEN SETTINGS_SIZE_V5
  ELSE 0

\* a validation that accepts a record by its version byte and skips the
\* checksum verification
RecordValidVersionOnly(rec) ==
  rec[OffVersion] = SETTINGS_VERSION \/ rec[OffVersion] = 4

\* settings_load: version test and checksum verification of one record
RecordValid(rec) ==
  /\ (rec[OffVersion] = SETTINGS_VERSION \/ rec[OffVersion] = 4)
  /\ LET size == RecordSize(rec[OffVersion])
     IN  size # 0 /\ SumBytes(rec, 1, size) = rec[OffChecksum]

\* settings_load: "found an invalid, but non-empty record"
RecordNonEmpty(rec) ==
  rec[OffVersion] # FillByte \/ rec[OffChecksum] # FillByte

\* a scan that only stops at a valid record and walks past anything else
LoopBreaksValidOnly(rec) == RecordValid(rec)

\* settings_load: the loop body leaves the loop at this record, through
\* either of its two break statements
LoopBreaks(rec) == RecordValid(rec) \/ RecordNonEmpty(rec)

\* a scan that runs from the last slot downwards
ScanStopHighest(f) ==
  LET stops == {i \in DOMAIN f : LoopBreaks(spiflash_read_block(f, i))}
  IN  IF stops = {} THEN NumSlots
      ELSE CHOOSE i \in stops : \A j \in stops : i >= j

\* settings_load: the value of i when the scan loop ends, that is the
\* lowest slot at which the loop body breaks, or 256 when it never does.
\* A slot outside DOMAIN f reads as ErasedRec, on which the loop body never
\* breaks (version 0xFF is neither 4 nor 5, and both tested bytes are 0xFF),
\* so only the slots of DOMAIN f are candidates.
ScanStop(f) ==
  LET stops == {i \in DOMAIN f : LoopBreaks(spiflash_read_block(f, i))}
  IN  IF stops = {} THEN NumSlots
      ELSE CHOOSE i \in stops : \A j \in stops : i <= j

\* settings_load: the scan loop; its final i, the valid flag and the
\* block read last into set
ScanSector(f) ==
  LET Outcome(i) ==
        LET rec == spiflash_read_block(f, IF i < NumSlots THEN i
                                          ELSE NumSlots - 1)
        IN  [i |-> i, valid |-> (i < NumSlots /\ RecordValid(rec)),
             set |-> rec]
  IN  CHOOSE r \in {Outcome(i) : i \in {ScanStop(f)}} : TRUE

\* settings_load: "valid settings found, copy to main vars"
ApplyRecord(s, rec) ==
  LET base ==
        [s EXCEPT
           !.video_settings = [m \in Modes |-> WordAt(rec, OffVideo + 4 * m)],
           !.osdbg_settings = WordAt(rec, OffOsdbg),
           !.mode_switch_delay = WordAt(rec, OffDelay),
           !.resbox_enabled = (rec[OffFlags] % 2 = 1),
           !.audio_volume = rec[OffVolume] % 256,
           !.audio_mute = ((rec[OffFlags] \div 2) % 2 = 1),
           !.ir_codes = [k \in IrIdx |-> WordAt(rec, OffIrCodes + 4 * k)]]
  IN  IF rec[OffVersion] >= 5
      THEN [base EXCEPT
              !.picture_brightness = ToInt8(rec[OffBrightness]),
              !.picture_contrast = ToInt8(rec[OffContrast]),
              !.picture_saturation = ToInt8(rec[OffSaturation])]
      ELSE base


(***************************************************************************)
(* Live settings                                                           *)
(***************************************************************************)
\* video interface setting bits used by settings_init; their values come
\* from portdefs.h, the model only needs them to be distinct bits above the
\* 8-bit scanline strength
VIDEOIF_SET_LD_ENABLE == 256
VIDEOIF_SET_SL_ALTERNATE == 512

\* settings_init: the compiled-in defaults
DefaultSettings ==
  [video_settings |->
     [m \in Modes |->
        IF m \in {0, 1} THEN ToWord(128 + VIDEOIF_SET_LD_ENABLE)
        ELSE IF m \in {2, 3}
             THEN ToWord(128 + VIDEOIF_SET_LD_ENABLE + VIDEOIF_SET_SL_ALTERNATE)
             ELSE ToWord(128)],
   osdbg_settings |-> ToWord(5250040),
   mode_switch_delay |-> ToWord(0),
   resbox_enabled |-> TRUE,
   audio_volume |-> 255,
   audio_mute |-> FALSE,
   ir_codes |-> [k \in IrIdx |-> ToWord(0)],
   picture_brightness |-> 0,
   picture_contrast |-> 0,
   picture_saturation |-> 0]

\* a settings state built from a few parameters; per-mode video words and
\* IR codes differ from each other
MkSettings(v, o, d, rb, vol, mu, ir, br, co, sa) ==
  [video_settings |-> [m \in Modes |-> WordPlus(v, m)],
   osdbg_settings |-> o,
   mode_switch_delay |-> d,
   resbox_enabled |-> rb,
   audio_volume |-> vol,
   audio_mute |-> mu,
   ir_codes |-> [k \in IrIdx |-> WordPlus(ir, k)],
   picture_brightness |-> br,
   picture_contrast |-> co,
   picture_saturation |-> sa]

SetA == MkSettings(ToWord(16909060), ToWord(5250040), ToWord(0), TRUE, 200,
                   FALSE, ToWord(551489775), 0, 0, 0)
SetB == MkSettings(AllOnes, AllOnes, AllOnes, FALSE, 7, TRUE, AllOnes,
                   -1, 0, 0)
SetC == MkSettings(ToWord(128), ToWord(0), ToWord(1000), TRUE, 0, TRUE,
                   ToWord(1), 5, -128, 127)

\* the settings states the menu code may leave in the globals (SetA is
\* what the records of the initial sectors hold)
SettingsSet == {SetB, SetC}

\* inputs of the codec checks: every combination of a few picture values
\* over two settings states
CodecSet ==
  {[[s EXCEPT !.picture_brightness = br] EXCEPT !.picture_contrast = co]
     : s \in {[SetA EXCEPT !.picture_saturation = sa] : sa \in {0, 5}}
           \cup {[SetB EXCEPT !.picture_saturation = sa] : sa \in {0, -128}},
       br \in {-128, -1, 0, 127}, co \in {0, -1}}

(***************************************************************************)
(* Sector contents found at power-up                                       *)
(***************************************************************************)
\* a record as written by the firmware that used version 4: 60 bytes
\* programmed, the rest of the slot left erased
RecordV4(s) ==
  LET body == [b \in RecIdx |->
                 IF b >= SETTINGS_SIZE_V4 THEN FillByte
                 ELSE IF b = OffVersion THEN 4
                 ELSE RecordBody(s)[b]]
  IN  [body EXCEPT ![OffChecksum] = SumBytes(body, 1, SETTINGS_SIZE_V4)]

\* a version-5 record whose checksum byte is off by one
RecordBadSum(s) ==
  [BuildRecord(s) EXCEPT ![OffChecksum] = (@ + 1) % 256]

\* a record of a version the code does not know
RecordBadVersion(s) == [BuildRecord(s) EXCEPT ![OffVersion] = 3]

\* a slot whose checksum and version bytes are still erased while a later
\* byte has been programmed
RecordDirty == [ErasedRec EXCEPT ![OffFlags] = 0]

SlotKinds == {"v5", "v4", "badsum", "badver", "dirty"}

SlotOfKind(kind, s) ==
  CASE kind = "v5" -> BuildRecord(s)
    [] kind = "v4" -> RecordV4(s)
    [] kind = "badsum" -> RecordBadSum(s)
    [] kind = "badver" -> RecordBadVersion(s)
    [] kind = "dirty" -> RecordDirty
    [] OTHER -> ErasedRec

\* slot indices at which the initial sector may hold something
InitPositions == {0, 1, 2, 3, 5, NumSlots - 1}

\* pairs of slots that both hold something in an initial sector
InitPairs ==
  {<<0, 1>>, <<1, 2>>, <<2, 3>>, <<3, 5>>, <<5, NumSlots - 1>>,
   <<0, NumSlots - 1>>}

\* sectors with at most two non-erased slots
InitSectors ==
  {ErasedSector}
  \cup {WithSlot(ErasedSector, p, SlotOfKind(k, SetA))
          : p \in InitPositions, k \in SlotKinds}
  \cup {WithSlot(WithSlot(ErasedSector, p[1], SlotOfKind(k[1], SetA)),
                  p[2], SlotOfKind(k[2], SetC))
          : p \in InitPairs,
            k \in SlotKinds \X {"v5", "v4", "badsum"}}

(***************************************************************************)
(* State                                                                   *)
(***************************************************************************)
VARIABLES
  flash,          \* the settings sector: programmed slot -> its bytes
  current_setid,  \* static uint16_t current_setid
  live,           \* the global settings variables
  set,            \* the local storedsettings_t of the last load or save
  valid,          \* the local "valid" of the last settings_load
  last,           \* the operation that ran last
  ops,            \* flash erase/program operations issued by that operation
  loaded,         \* settings_load has run since power-up
  saveCount,      \* number of settings_save calls so far
  eraseCount,     \* number of sector erases so far
  saved,          \* the settings and slot of the most recent settings_save
  rebooted,       \* a reboot happened after the most recent settings_save
  written,        \* slots programmed since the last erase, oldest first
  before,         \* cursor, settings and programmed slots before that operation
  flipped,        \* <<byte, bit>> of the bit flipped in the saved record
  videoif_flags,  \* the VIDEOIF->flags register
  detected        \* the value returned by the last detect_inputmode call

vars == <<flash, current_setid, live, set, valid, last, ops, loaded,
          saveCount, eraseCount, saved, rebooted, written, before, flipped,
          videoif_flags, detected>>

InitRam ==
  /\ current_setid = 0
  /\ set = ErasedRec
  /\ valid = FALSE
  /\ last = "boot"
  /\ ops = <<>>
  /\ loaded = FALSE
  /\ saveCount = 0
  /\ eraseCount = 0
  /\ saved = [has |-> FALSE, live |-> DefaultSettings, slot |-> NumSlots]
  /\ rebooted = FALSE
  /\ written = <<>>
  /\ before = [current_setid |-> 0, live |-> DefaultSettings, slots |-> {}]
  /\ flipped = <<>>

InitCommon == live = DefaultSettings /\ InitRam

\* no input signal: all flag bits clear, no mode detected yet
InitVideo == videoif_flags = 0 /\ detected = VIDMODE_240p

\* power-up on a sector holding anything
Init == flash \in InitSectors /\ InitCommon /\ InitVideo

\* power-up on an erased sector
InitErased == flash = ErasedSector /\ InitCommon /\ InitVideo

\* an erased sector and any of the codec inputs in the settings globals
InitFault ==
  flash = ErasedSector /\ live \in CodecSet /\ InitRam /\ InitVideo

(***************************************************************************)
(* Operations                                                              *)
(***************************************************************************)
settings_load ==
  \E r \in {ScanSector(flash)} :
      /\ current_setid' = r.i
      /\ valid' = r.valid
      /\ set' = r.set
      /\ live' = IF r.valid THEN ApplyRecord(live, r.set) ELSE live
      /\ last' = "load"
      /\ ops' = <<>>
      /\ loaded' = TRUE
      /\ before' = [current_setid |-> current_setid, live |-> live,
                    slots |-> DOMAIN flash]
      /\ UNCHANGED <<flash, saveCount, eraseCount, saved, rebooted, written,
                     flipped, videoif_flags, detected>>

\* a save that already erases when one erased slot is left
SaveEffectEarlyErase(f, id0, rec) ==
  LET erase == (id0 <= 1)
      f1 == IF erase THEN spiflash_erase_sector(f) ELSE f
      id == (IF erase THEN NumSlots ELSE id0) - 1
  IN  [flash |-> spiflash_write_page(f1, id, rec),
       id |-> id,
       ops |-> (IF erase
                THEN <<[op |-> "erase", slot |-> 0, clean |-> TRUE]>>
                ELSE <<>>)
               \o <<[op |-> "write", slot |-> id,
                     clean |-> (spiflash_read_block(f1, id) = ErasedRec)]>>]

\* a save that wraps the cursor without erasing the sector
SaveEffectNoErase(f, id0, rec) ==
  LET id == (IF id0 = 0 THEN NumSlots ELSE id0) - 1
  IN  [flash |-> spiflash_write_page(f, id, rec),
       id |-> id,
       ops |-> <<[op |-> "write", slot |-> id,
                  clean |-> (spiflash_read_block(f, id) = ErasedRec)]>>]

\* settings_save: "check if erase cycle is needed" and "write data to
\* flash", on sector f with cursor id0: the sector and cursor afterwards
\* and the flash operations issued, in order
SaveEffect(f, id0, rec) ==
  LET erase == (id0 = 0)
      f1 == IF erase THEN spiflash_erase_sector(f) ELSE f
      id == (IF erase THEN NumSlots ELSE id0) - 1
  IN  [flash |-> spiflash_write_page(f1, id, rec),
       id |-> id,
       ops |-> (IF erase
                THEN <<[op |-> "erase", slot |-> 0, clean |-> TRUE]>>
                ELSE <<>>)
               \o <<[op |-> "write", slot |-> id,
                     clean |-> (spiflash_read_block(f1, id) = ErasedRec)]>>]

\* the flash operations of one call that are sector erases
Erases(o) == {k \in 1 .. Len(o) : o[k].op = "erase"}
Writes(o) == {k \in 1 .. Len(o) : o[k].op = "write"}

settings_save ==
  \E rec \in {BuildRecord(live)} :
  \E e \in {SaveEffect(flash, current_setid, rec)} :
      /\ set' = rec
      /\ flash' = e.flash
      /\ current_setid' = e.id
      /\ ops' = e.ops
      /\ last' = "save"
      /\ saveCount' = saveCount + 1
      /\ eraseCount' = eraseCount + Cardinality(Erases(e.ops))
      /\ saved' = [has |-> TRUE, live |-> live, slot |-> e.id]
      /\ rebooted' = FALSE
      /\ written' = Append(IF Erases(e.ops) # {} THEN <<>> ELSE written,
                           e.id)
      /\ before' = [current_setid |-> current_setid, live |-> live,
                    slots |-> DOMAIN flash]
      /\ UNCHANGED <<live, valid, loaded, flipped, videoif_flags, detected>>

\* power cycle: static storage is zeroed and settings_init runs
Reboot ==
  /\ last # "boot"
  /\ current_setid' = 0
  /\ live' = DefaultSettings
  /\ set' = ErasedRec
  /\ valid' = FALSE
  /\ last' = "boot"
  /\ ops' = <<>>
  /\ loaded' = FALSE
  /\ rebooted' = TRUE
  /\ before' = [current_setid |-> current_setid, live |-> live,
                    slots |-> DOMAIN flash]
  /\ UNCHANGED <<flash, saveCount, eraseCount, saved, written, flipped,
                 videoif_flags, detected>>

\* the menu code changes the global settings variables
Change ==
  /\ last # "change"
  /\ \E s \in SettingsSet :
       /\ s # live
       /\ live' = s
  /\ last' = "change"
  /\ ops' = <<>>
  /\ before' = [current_setid |-> current_setid, live |-> live,
                    slots |-> DOMAIN flash]
  /\ UNCHANGED <<flash, current_setid, set, valid, loaded, saveCount,
                 eraseCount, saved, rebooted, written, flipped,
                 videoif_flags, detected>>

Save == saveCount < MaxSaves /\ settings_save

Next == settings_load \/ Save \/ Reboot \/ Change

Spec == Init /\ [][Next]_vars

\* a fault of the storage medium: one bit of the first 63 bytes of the
\* record programmed last changes its value
FlipBit ==
  /\ last = "save"
  /\ flipped = <<>>
  /\ \E b \in 0 .. (SETTINGS_SIZE_V5 - 1), k \in 0 .. 7 :
       /\ flash' = WithSlot(flash, current_setid,
                            [flash[current_setid] EXCEPT
                               ![b] = BitXor(@, 2 ^ k, 8)])
       /\ flipped' = <<b, k>>
  /\ last' = "flip"
  /\ ops' = <<>>
  /\ before' = [current_setid |-> current_setid, live |-> live,
                slots |-> DOMAIN flash]
  /\ UNCHANGED <<current_setid, live, set, valid, loaded, saveCount,
                 eraseCount, saved, rebooted, written, videoif_flags,
                 detected>>

SaveErased == saveCount < MaxSavesErased /\ settings_save

NextErased == settings_load \/ SaveErased \/ Reboot \/ Change

SpecErased == InitErased /\ [][NextErased]_vars

\* consecutive saves after the boot-time load, over MaxCycles passes of
\* the sector and one save more
SaveWear ==
  /\ loaded
  /\ saveCount < MaxCycles * NumSlots + 1
  /\ settings_save

NextWear == settings_load \/ SaveWear

SpecWear == InitErased /\ [][NextWear]_vars

\* one save, then a single-bit fault in the record, then the next load
SaveOnce == saveCount = 0 /\ settings_save

NextFault == settings_load \/ SaveOnce \/ FlipBit

SpecFault == InitFault /\ [][NextFault]_vars

\* the settings variables and the sector, which the input-mode
\* classification does not touch
persist == <<flash, current_setid, live, set, valid, ops, loaded, saveCount,
             eraseCount, saved, rebooted, written, before, flipped>>

\* the video interface reports any value in the flags register
InitInput ==
  /\ flash = ErasedSector
  /\ InitCommon
  /\ videoif_flags \in FlagValues
  /\ detected = VIDMODE_240p

\* a call of detect_inputmode
DetectInputMode ==
  /\ detected' = detect_inputmode(videoif_flags)
  /\ last' = "detect"
  /\ UNCHANGED <<videoif_flags, persist>>

\* the input signal changes: the hardware updates the flags register
SignalChange ==
  /\ last = "detect"
  /\ \E v \in FlagValues : v # videoif_flags /\ videoif_flags' = v
  /\ last' = "signal"
  /\ UNCHANGED <<detected, persist>>

NextInput == DetectInputMode \/ SignalChange

SpecInput == InitInput /\ [][NextInput]_vars


(***************************************************************************)
(* Properties                                                              *)
(***************************************************************************)
LastSlot == NumSlots - 1

\* the slots of f holding a record that passes the validation of
\* settings_load
ValidSlots(f) == {i \in DOMAIN f : RecordValid(f[i])}

\* slot i of f is in the erased state: every byte reads 0xFF
IsErased(f, i) == spiflash_read_block(f, i) = ErasedRec

\* the persisted fields of two settings states agree, picture controls
\* left aside
SameStoredFields(a, b) ==
  /\ a.video_settings = b.video_settings
  /\ a.osdbg_settings = b.osdbg_settings
  /\ a.mode_switch_delay = b.mode_switch_delay
  /\ a.resbox_enabled = b.resbox_enabled
  /\ a.audio_volume = b.audio_volume
  /\ a.audio_mute = b.audio_mute
  /\ a.ir_codes = b.ir_codes

\* C1: durability across reboot.  After a settings_save has completed with
\* live settings S and no later save has run, a settings_load that follows
\* a reboot restores exactly S and sets the cursor to the slot that save
\* programmed, whatever the sector held at first power-up.
C1_Durability ==
  (last = "load" /\ saved.has /\ rebooted)
    => (live = saved.live /\ current_setid = saved.slot)

\* C2: newest wins.  When all slots below the lowest-indexed valid record
\* are erased, settings_load applies that record and sets the cursor to its
\* index; with slots 0..2 erased and slots 3 and 5 valid this is slot 3,
\* never slot 5.
C2_NewestWins ==
  last = "load" =>
    /\ \A v \in ValidSlots(flash) :
         (\A j \in 0 .. (v - 1) : IsErased(flash, j))
           => /\ valid
              /\ current_setid = v
              /\ set = flash[v]
              /\ live = ApplyRecord(before.live, flash[v])
    /\ ({3, 5} \subseteq ValidSlots(flash)
        /\ \A j \in 0 .. 2 : IsErased(flash, j))
         => /\ valid
            /\ current_setid = 3
            /\ live = ApplyRecord(before.live, flash[3])
            \* in the sector as found at power-up slot 3 holds SetA and
            \* slot 5 holds SetC
            /\ saveCount = 0
                 => (SameStoredFields(live, SetA)
                     /\ ~SameStoredFields(live, SetC))

C2_Witness ==
  /\ last = "load"
  /\ {3, 5} \subseteq ValidSlots(flash)
  /\ \A j \in 0 .. 2 : IsErased(flash, j)
  /\ flash[3][OffVersion] = 4
  /\ flash[5][OffVersion] = 5
  /\ current_setid = 3

\* slot i of f holds a corrupted record that the scan sees as non-empty:
\* it fails validation and its version or checksum byte is not 0xFF
IsCorruptNonEmpty(f, i) ==
  /\ i \in DOMAIN f
  /\ ~RecordValid(f[i])
  /\ (f[i][OffVersion] # FillByte \/ f[i][OffChecksum] # FillByte)

\* C3 as stated: with slot 0 erased, slot 1 valid and slot 2 corrupted and
\* non-empty, settings_load reports no record and applies nothing.
C3_Original ==
  (/\ last = "load"
   /\ IsErased(flash, 0)
   /\ 1 \in ValidSlots(flash)
   /\ IsCorruptNonEmpty(flash, 2))
    => (~valid /\ live = before.live)

\* C3 amended: the scan ascends from slot 0, so in that sector it stops at
\* the valid record of slot 1 and applies it (cursor 1); it reports no
\* record when the corrupted non-empty record has the lower index: slot 0
\* erased, slot 1 corrupted and non-empty, slot 2 valid gives no record,
\* nothing applied and cursor 1.
C3_ScanStopOnCorruption ==
  /\ (/\ last = "load"
      /\ IsErased(flash, 0)
      /\ 1 \in ValidSlots(flash)
      /\ IsCorruptNonEmpty(flash, 2))
       => (valid /\ current_setid = 1
           /\ live = ApplyRecord(before.live, flash[1]))
  /\ (/\ last = "load"
      /\ IsErased(flash, 0)
      /\ IsCorruptNonEmpty(flash, 1)
      /\ 2 \in ValidSlots(flash))
       => (~valid /\ current_setid = 1 /\ live = before.live)

C3_Witness ==
  /\ last = "load"
  /\ IsErased(flash, 0)
  /\ IsCorruptNonEmpty(flash, 1)
  /\ 2 \in ValidSlots(flash)
  /\ ~valid
  /\ before.live # DefaultSettings

\* C4: exhaustion triggers erase.  A settings_save that starts with the
\* cursor at 0 erases the sector, then programs slot 255, and ends with the
\* cursor at 255; afterwards slot 255 holds the new record and is the only
\* slot of the sector that is not erased.
C4_ExhaustionErase ==
  (last = "save" /\ before.current_setid = 0)
    => /\ Len(ops) = 2
       /\ ops[1].op = "erase"
       /\ ops[2].op = "write"
       /\ ops[2].slot = LastSlot
       /\ current_setid = LastSlot
       /\ DOMAIN flash = {LastSlot}
       /\ flash[LastSlot] = BuildRecord(live)
       /\ flash[LastSlot] # ErasedRec

\* the save found the cursor at 0 after a scan that stopped at slot 0, in a
\* sector that held records in other slots too
C4_Witness ==
  /\ last = "save"
  /\ before.current_setid = 0
  /\ loaded
  /\ {0, LastSlot} \subseteq before.slots


\* C5: wear amortization.  After the load on a freshly erased sector, the
\* first 256 saves erase nothing and program slots 255 down to 0 in that
\* order, the 257th save erases once, from then on exactly one save in
\* every 256 erases, and every save programs exactly one slot.
C5_WearAmortization ==
  last = "save" =>
    /\ Cardinality(Writes(ops)) = 1
    /\ saveCount <= NumSlots
         => /\ Erases(ops) = {}
            /\ eraseCount = 0
            /\ ops[1].slot = NumSlots - saveCount
    /\ Cardinality(Erases(ops))
         = (IF saveCount > 1 /\ (saveCount - 1) % NumSlots = 0 THEN 1 ELSE 0)
    /\ eraseCount = (saveCount - 1) \div NumSlots

\* the save that opens the third pass over the sector
C5_Witness ==
  /\ last = "save"
  /\ saveCount = 2 * NumSlots + 1
  /\ eraseCount = 2
  /\ current_setid = LastSlot

\* C6: codec round trip.  The record built by settings_save (64 bytes,
\* padding 0, version 5, checksum = sum of bytes 1..63 modulo 256) passes
\* the validation of settings_load and decodes to exactly the settings it
\* was built from, whatever the settings were before the decode; a
\* version-4 record with a correct checksum over bytes 1..59 is accepted
\* and yields its stored video, OSD, delay, flag, volume and IR fields.
C6_RoundTrip ==
  /\ last = "save"
       => /\ set[OffVersion] = 5
          /\ set[RecSize - 1] = 0
          /\ set[OffChecksum] = SumBytes(set, 1, RecSize)
          /\ RecordValid(set)
          /\ \A prior \in {DefaultSettings, SetB, SetC} :
               ApplyRecord(prior, set) = live
  /\ (/\ last = "load"
      /\ current_setid < NumSlots
      /\ set[OffVersion] = 4
      /\ set[OffChecksum] = SumBytes(set, 1, SETTINGS_SIZE_V4))
       => /\ valid
          /\ \A s \in {SetA, SetC} :
               set = RecordV4(s) => SameStoredFields(live, s)

C6_Witness ==
  /\ last = "save"
  /\ live = SetC
  /\ set[OffBrightness] = 5
  /\ set[OffContrast] = 128
  /\ set[OffSaturation] = 127

\* C7: checksum sensitivity.  Flipping any single bit within the first 63
\* bytes of a record produced by settings_save makes the validation of
\* settings_load reject the record.
C7_ChecksumSensitivity ==
  (last = "load" /\ flipped # <<>>) => ~valid

\* C8: version migration.  After settings_load has selected a version-4
\* record, the picture controls are 0 whatever the settings were before,
\* and every other persisted field has the value stored in the record.
C8_Migration ==
  (last = "load" /\ valid /\ set[OffVersion] = 4)
    => /\ live.picture_brightness = 0
       /\ live.picture_contrast = 0
       /\ live.picture_saturation = 0
       /\ SameStoredFields(live, ApplyRecord(DefaultSettings, set))

\* position of slot i in the order of programming since the last erase
\* (0: not programmed by a save)
WrittenAt(i) ==
  LET at == {k \in 1 .. Len(written) : written[k] = i}
  IN  IF at = {} THEN 0 ELSE CHOOSE k \in at : \A m \in at : k >= m

\* C9: newer is lower.  From an erased sector, of any two slots i < j that
\* both hold valid records the one in slot i was written by the later
\* save, and within one erase cycle each save programs the slot exactly
\* one below the slot programmed by the save before.
C9_NewerIsLower ==
  /\ \A i \in ValidSlots(flash) : \A j \in ValidSlots(flash) :
       i < j => (WrittenAt(j) > 0 /\ WrittenAt(i) > WrittenAt(j))
  /\ \A k \in 2 .. Len(written) : written[k] = written[k - 1] - 1

\* three records of one erase cycle, the cycle having started with an erase
C9_Witness ==
  /\ eraseCount >= 1
  /\ Len(written) >= 3
  /\ Cardinality(ValidSlots(flash)) >= 3
  /\ last = "load"
  /\ rebooted

\* C10: write once per erase cycle.  Every spiflash_write_page issued by
\* settings_save targets a slot whose bytes all read 0xFF at that moment.
C10_WriteOnce ==
  \A k \in 1 .. Len(ops) : ops[k].op = "write" => ops[k].clean

\* C11 as stated: locate result shape.  After settings_load either a valid
\* record was found and the cursor is the index of the slot holding it, or
\* no record was found and the cursor is 256; a load that finds no record
\* never leaves the cursor below 256.
C11_Original ==
  last = "load" =>
    \/ (valid /\ current_setid \in ValidSlots(flash))
    \/ (~valid /\ current_setid = NumSlots)

\* C11 amended: after settings_load one of three outcomes holds: a valid
\* record was found, the cursor is the index of its slot and set holds its
\* bytes; or no record was found, the cursor is 256 and every slot has
\* checksum and version bytes 0xFF; or no record was found and the cursor
\* is the index, below 256, of a slot that fails validation and whose
\* checksum or version byte is not 0xFF.
C11_LocateShape ==
  last = "load" =>
    \/ /\ valid
       /\ current_setid \in ValidSlots(flash)
       /\ set = flash[current_setid]
    \/ /\ ~valid
       /\ current_setid = NumSlots
       /\ \A i \in DOMAIN flash :
            flash[i][OffVersion] = FillByte /\ flash[i][OffChecksum] = FillByte
    \/ /\ ~valid
       /\ current_setid < NumSlots
       /\ IsCorruptNonEmpty(flash, current_setid)

\* the third outcome, with a valid record in a slot above the cursor
C11_Witness ==
  /\ last = "load"
  /\ ~valid
  /\ current_setid \in 1 .. LastSlot
  /\ IsCorruptNonEmpty(flash, current_setid)
  /\ \E v \in ValidSlots(flash) : v > current_setid

\* slot k is the lowest-indexed slot of f that is not erased (some byte of
\* it is not 0xFF), and it fails the validation of settings_load
LowestNonErasedFails(f, k) ==
  /\ k \in DOMAIN f
  /\ ~IsErased(f, k)
  /\ \A j \in DOMAIN f : j < k => IsErased(f, j)
  /\ ~RecordValid(f[k])

\* C12: stop at the first unusable slot.  If the lowest-indexed non-erased
\* slot k fails validation, settings_load applies no record, even when a
\* slot above k holds a valid one, and sets the cursor to k; the
\* settings_save that follows programs slot k-1 without erasing when k > 0
\* and erases the sector before programming slot 255 when k = 0.
C12_StopAtUnusable ==
  [][\A k \in DOMAIN flash :
       LowestNonErasedFails(flash, k) =>
         /\ last' = "load"
              => (~valid' /\ current_setid' = k /\ live' = live)
         /\ (last = "load" /\ last' = "save")
              => IF k > 0
                 THEN /\ Len(ops') = 1
                      /\ ops'[1].op = "write"
                      /\ ops'[1].slot = k - 1
                      /\ current_setid' = k - 1
                 ELSE /\ Len(ops') = 2
                      /\ ops'[1].op = "erase"
                      /\ ops'[2].op = "write"
                      /\ ops'[2].slot = LastSlot
                      /\ current_setid' = LastSlot]_vars

\* C13: erased-slot classification.  The scan of settings_load continues
\* past a slot only if every byte of the slot is 0xFF: after a load every
\* slot below the cursor is erased, and no slot that holds a non-0xFF byte
\* and fails validation lies below the cursor, so the slot the next save
\* programs holds no written bytes.
C13_ErasedClassification ==
  last = "load" =>
    /\ \A j \in DOMAIN flash : j < current_setid => IsErased(flash, j)
    /\ \A k \in DOMAIN flash :
         (~IsErased(flash, k) /\ ~RecordValid(flash[k]))
           => current_setid <= k
    /\ current_setid > 0 => IsErased(flash, current_setid - 1)

\* C14: erase exactly on exhaustion.  After the boot-time load on a sector
\* reached from the erased state, a settings_save erases the sector if and
\* only if no erased slot was left when it started, which is the case
\* exactly when it started with the cursor at 0; no save erases while an
\* erased slot is available and no save erases more than once.
C14_EraseOnExhaustion ==
  (last = "save" /\ loaded) =>
    /\ (Erases(ops) # {}) <=> (before.slots = 0 .. LastSlot)
    /\ (Erases(ops) # {}) <=> (before.current_setid = 0)
    /\ Cardinality(Erases(ops)) <= 1

\* the save that found all 256 slots programmed and erased the sector
C14_Witness ==
  /\ last = "save"
  /\ loaded
  /\ before.slots = 0 .. LastSlot
  /\ before.current_setid = 0
  /\ Erases(ops) = {1}
  /\ DOMAIN flash = {LastSlot}

\* C15: superseded records are preserved.  A settings_save that starts
\* with cursor c > 0 erases nothing and changes the contents of slot c-1
\* only: every other slot keeps its bytes, and every record that was valid
\* before the save is still valid after it.
C15_SupersededPreserved ==
  [][(last' = "save" /\ saveCount' = saveCount + 1 /\ current_setid > 0)
       => /\ Erases(ops') = {}
          /\ \A i \in (DOMAIN flash \cup DOMAIN flash')
                        \ {current_setid - 1} :
               spiflash_read_block(flash', i) = spiflash_read_block(flash, i)
          /\ (ValidSlots(flash) \ {current_setid - 1})
               \subseteq ValidSlots(flash')]_vars

\* a save below two older valid records, which are both still valid
C15_Witness ==
  /\ last = "save"
  /\ before.current_setid > 0
  /\ Erases(ops) = {}
  /\ Cardinality(before.slots) >= 2
  /\ before.slots \subseteq ValidSlots(flash)
  /\ current_setid \notin before.slots
  /\ current_setid \in ValidSlots(flash)

\* the bytes of rec do not form a record: the version byte is neither 4
\* nor 5, or the checksum byte differs from the sum of the bytes that
\* follow it
FailsValidation(rec) ==
  \/ rec[OffVersion] \notin {4, 5}
  \/ rec[OffChecksum]
       # SumBytes(rec, 1, IF rec[OffVersion] = 4 THEN 60 ELSE 63)

\* C16: a failed load leaves live state alone.  settings_load never erases
\* or programs flash; when it finds no valid record (sector empty, or scan
\* stopped at an unusable slot) every live setting keeps the value it had
\* before the call, and no field of a record that fails validation is
\* copied into the live settings.
C16_FailedLoadFrame ==
  [][last' = "load"
       => /\ flash' = flash
          /\ ops' = <<>>
          /\ ~valid' => live' = live
          /\ (current_setid' < NumSlots /\ FailsValidation(set'))
               => (~valid' /\ live' = live)
          /\ current_setid' = NumSlots => (~valid' /\ live' = live)]_vars

\* a load that stopped at a record failing validation, whose volume byte
\* differs from the live volume it left in place
C16_Witness ==
  /\ last = "load"
  /\ ~valid
  /\ current_setid < NumSlots
  /\ FailsValidation(set)
  /\ set[OffVersion] \in {4, 5}
  /\ live = before.live
  /\ live # DefaultSettings
  /\ set[OffVolume] # live.audio_volume

\* settings_load: the slots read by the scan that has just ended.  The loop
\* reads slot i at each pass, i ascending from 0, and current_setid holds
\* the final i: the slot at which a break left the loop, or 256 after the
\* pass over slot 255
SlotsRead ==
  0 .. (IF current_setid < NumSlots THEN current_setid ELSE NumSlots - 1)

\* C17: bounded scan.  settings_load reads at most 256 slots, in ascending
\* order from slot 0, and reads no slot beyond the first slot that is
\* either valid or non-erased.
C17_BoundedScan ==
  last = "load" =>
    /\ Cardinality(SlotsRead) <= NumSlots
    /\ 0 \in SlotsRead
    /\ \A r \in SlotsRead : \A q \in 0 .. r : q \in SlotsRead
    /\ \A k \in DOMAIN flash :
         (RecordValid(flash[k]) \/ ~IsErased(flash, k))
           => \A r \in SlotsRead : r <= k

\* C18: cursor/sector shape.  Starting from an erased sector, once
\* settings_load has run in the current boot, and after each later
\* settings_save, the cursor lies in 0..256, every slot below the cursor is
\* erased and every slot from the cursor to 255 is non-erased, so the
\* cursor is the lowest index of a non-erased slot (256 if there is none)
\* and every programmed slot lies inside the sector.
C18_CursorShape ==
  loaded =>
    /\ current_setid \in 0 .. NumSlots
    /\ \A i \in 0 .. (current_setid - 1) : IsErased(flash, i)
    /\ \A i \in current_setid .. LastSlot : ~IsErased(flash, i)
    /\ \A i \in 0 .. LastSlot :
         ~IsErased(flash, i) => current_setid <= i
    /\ \A k \in 1 .. Len(ops) : ops[k].slot \in 0 .. LastSlot

\* the cursor has come down to 0 with all 256 slots programmed, after the
\* sector was erased once by a save
C18_Witness ==
  /\ loaded
  /\ last = "save"
  /\ current_setid = 0
  /\ eraseCount = 1
  /\ \A i \in 0 .. LastSlot : ~IsErased(flash, i)

NoSaveThisBoot == ~saved.has \/ rebooted

FlagSet(b) == (videoif_flags \div b) % 2 = 1

\* C20: input-mode classification.  For each of the 8 combinations of the
\* PROGRESSIVE, PAL and 31KHZ flags, whatever the other bits of the
\* register, detect_inputmode returns one mode: with 31KHZ set, 576p if
\* PAL is set and 480p otherwise; with 31KHZ clear, 288p for
\* PAL+PROGRESSIVE, 576i for PAL alone, 240p for PROGRESSIVE alone and 480i
\* for no flag; the result is a 50 Hz mode (288p, 576i, 576p) if and only
\* if PAL is set.
C20_InputMode ==
  last = "detect" =>
    /\ detected \in Modes
    /\ detected =
         (IF FlagSet(VIDEOIF_FLAG_31KHZ)
          THEN (IF FlagSet(VIDEOIF_FLAG_PAL) THEN VIDMODE_576p
                ELSE VIDMODE_480p)
          ELSE IF FlagSet(VIDEOIF_FLAG_PAL)
               THEN (IF FlagSet(VIDEOIF_FLAG_PROGRESSIVE) THEN VIDMODE_288p
                     ELSE VIDMODE_576i)
               ELSE (IF FlagSet(VIDEOIF_FLAG_PROGRESSIVE) THEN VIDMODE_240p
                     ELSE VIDMODE_480i))
    /\ (detected \in {VIDMODE_288p, VIDMODE_576i, VIDMODE_576p})
         <=> FlagSet(VIDEOIF_FLAG_PAL)
    /\ (detected % 2 = 1) <=> FlagSet(VIDEOIF_FLAG_PAL)

\* a call with all three flags and a bit outside the mask set: 576p
C20_Witness ==
  /\ last = "detect"
  /\ FlagSet(VIDEOIF_FLAG_PROGRESSIVE)
  /\ FlagSet(VIDEOIF_FLAG_PAL)
  /\ FlagSet(VIDEOIF_FLAG_31KHZ)
  /\ videoif_flags >= 8
  /\ detected = VIDMODE_576p

====
